---------------------------- MODULE Spec2Model ----------------------------
(***************************************************************************)
(* Model of the leaf-diagnosis application src/app.py: one Streamlit       *)
(* process, the script runs of its browser sessions, the model artifact    *)
(* on disk, the cache of load_plant_model, and the scratch files of        *)
(* create_pdf_report.                                                      *)
(*                                                                         *)
(* Numbers.  A class probability is the rational k / Scale, written k.     *)
(* The confidence of the script is 100 * k, again over Scale.  The text    *)
(* "{confidence:.2f}" is the integer number of hundredths it prints.       *)
(* Arabic UI strings are written in Latin transliteration, the original    *)
(* is given in the comment next to each.                                   *)
(***************************************************************************)
EXTENDS Integers, Sequences, FiniteSets, TLC

\* Denominator of the class probabilities.
Scale == 6
\* Number of scratch-file names the temporary directory can hold.
MaxTmpFiles == 2

Sessions == {"s1", "s2"}
\* The browser sessions that connect under Spec.
Browsers == {"s1"}

Languages == {"English", "Arabic"}

-----------------------------------------------------------------------------
(* Static data: texts (src/app.py 70-147)                                  *)

EnglishTexts ==
  [ classes |-> << "Healthy Leaf", "Nitrogen Deficiency", "Zinc Deficiency" >>,
    fertilizer_table |->
      << << "Nutrient", "Recommended Amount (kg/ha/year)" >>,
         << "Nitrogen (N)", "150 - 200" >>,
         << "Phosphorus (P2O5)", "60 - 80" >>,
         << "Potassium (K2O)", "200 - 250" >>,
         << "Zinc (Zn)", "3 - 5 (Soil) or Foliar Spray" >> >>,
    download_pdf |-> "Download English Report (PDF)" ]

ArabicTexts ==
  [ \* "ورقة سليمة", "نقص النيتروجين", "نقص الزنك"
    classes |-> << "waraqa salima", "naqs al-nitrujin", "naqs al-zink" >>,
    fertilizer_table |->
      << \* "العنصر الغذائي", "الكمية الموصى بها (كجم/هكتار/سنة)"
         << "al-unsur al-ghidhai", "al-kammiyya al-musa biha (kg/ha/sana)" >>,
         \* "النيتروجين (N)"
         << "al-nitrujin (N)", "150 - 200" >>,
         \* "الفوسفور (P2O5)"
         << "al-fusfur (P2O5)", "60 - 80" >>,
         \* "البوتاسيوم (K2O)"
         << "al-butasyum (K2O)", "200 - 250" >>,
         \* "الزنك (Zn)", "3 - 5 (تربة) أو رش ورقي"
         << "al-zink (Zn)", "3 - 5 (turba) aw rashsh waraqi" >> >>,
    \* "تحميل التقرير الإنجليزي (PDF)"
    download_pdf |-> "tahmil al-taqrir al-injlizi (PDF)" ]

texts == [ l \in Languages |-> IF l = "English" THEN EnglishTexts ELSE ArabicTexts ]

\* The keys of texts["English"]["details"] (src/app.py 81-102).
DetailKeys == { "Healthy Leaf", "Nitrogen Deficiency", "Zinc Deficiency" }

\* texts["English"]["details"].get(cls, {}).get(key, "N/A")
DetailsGet(cls, key) ==
  IF cls \in DetailKeys THEN << cls, key >> ELSE << "N/A", "N/A" >>

-----------------------------------------------------------------------------
(* Pure helpers                                                            *)

\* The vectors model.predict can return: three probabilities that sum to 1.
Predictions ==
  { v \in [1..3 -> 0..Scale] : v[1] + v[2] + v[3] = Scale }

\* np.max: the largest entry, found by a left-to-right scan.
RECURSIVE MaxFrom(_, _, _)
MaxFrom(v, i, best) ==
  IF i > Len(v) THEN best
  ELSE MaxFrom(v, i + 1, IF v[i] > best THEN v[i] ELSE best)

\* A variant of NpMax that reads prediction[0] in place of the maximum.
NpMax_FirstEntry(v) == v[1]

NpMax(v) == MaxFrom(v, 2, v[1])

\* np.argmax: a left-to-right scan that moves only on a strictly larger
\* entry, so the first of several equal maxima wins.  Indices are 0-based.
RECURSIVE ArgMaxFrom(_, _, _)
ArgMaxFrom(v, i, besti) ==
  IF i > Len(v) THEN besti - 1
  ELSE ArgMaxFrom(v, i + 1, IF v[i] > v[besti] THEN i ELSE besti)

\* A variant of the scan that also moves on an equal entry (>= for >), so
\* the last of several equal maxima wins.
RECURSIVE ArgMaxLastFrom(_, _, _)
ArgMaxLastFrom(v, i, besti) ==
  IF i > Len(v) THEN besti - 1
  ELSE ArgMaxLastFrom(v, i + 1, IF v[i] >= v[besti] THEN i ELSE besti)

NpArgMax_LastMax(v) == ArgMaxLastFrom(v, 2, 1)

NpArgMax(v) == ArgMaxFrom(v, 2, 1)

\* Python list indexing with a 0-based index.
Item(list, index) == list[index + 1]

\* list(reversed(row))
Reversed(row) == [ i \in 1..Len(row) |-> row[Len(row) + 1 - i] ]

\* f"{confidence:.2f}": the number of hundredths printed for the value
\* c / Scale, rounded to nearest, a tie going to the even neighbour.
Format2f(c) ==
  LET n == 100 * c
      q == n \div Scale
      r == n % Scale
  IN  IF 2 * r < Scale THEN q
      ELSE IF 2 * r > Scale THEN q + 1
      ELSE IF q % 2 = 0 THEN q ELSE q + 1

-----------------------------------------------------------------------------
(* State                                                                   *)

VARIABLES
  modelFile,     \* model.h5 on disk: "absent", "valid" or "corrupt"
  cache,         \* st.cache_resource entry of load_plant_model(MODEL_PATH)
  loads,         \* number of calls of tf.keras.models.load_model so far
  tmpFiles,      \* the scratch files that exist in the temporary directory
  widget,        \* per session: the language selector and the uploader
  pc,            \* per session: position of the script run
  model,         \* per session: the script global `model`
  lang,          \* per session: st.session_state.lang
  display,       \* per session: the elements the run has put on the page
  events,        \* per session: what has happened in the run
  diag,          \* per session: locals of the prediction block (559-577)
  report_call,   \* per session: the arguments create_pdf_report was called with
  pdf,           \* per session: locals of create_pdf_report while it runs
  doc,           \* per session: content of the document create_pdf_report builds
  scratch,       \* per session: the scratch file the call of this run created
  pdf_file,      \* per session: the value create_pdf_report returned
  download,      \* per session: the download button of the run
  table_html,    \* per session: the rows of the expander table (600-621)
  baseline       \* per session: diagnosis of the run before a language switch

vars == << modelFile, cache, loads, tmpFiles, widget, pc, model, lang, display, events,
           diag, report_call, pdf, doc, scratch, pdf_file, download, table_html,
           baseline >>

TmpNames == 1..MaxTmpFiles

NoDiag == [ prediction |-> << >>, class_index |-> -1, confidence |-> -1,
            pred_class_en |-> "", pred_class_display |-> "",
            confidence_text |-> -1,
            details_text |-> << >>, fertilizer_text |-> << >> ]

NoCall == [ predicted_class_en |-> "", confidence |-> -1 ]

\* tmp_file_path 0 stands for None; raising: an exception is on its way out.
NoPdf == [ roboto_regular_found |-> FALSE, roboto_bold_found |-> FALSE,
           registered |-> {}, english_font |-> "", english_bold_font |-> "",
           tmp_file_path |-> 0, raising |-> FALSE ]

NoDoc == [ images |-> 0, error_lines |-> 0, tables |-> 0, table_rows |-> 0 ]

\* What the uploader holds: nothing, bytes that are no image, or an image.
\* An image is identified by the vector the model returns for it.
NoFile == [ kind |-> "none", probs |-> << >> ]
Garbage == [ kind |-> "garbage", probs |-> << >> ]
ImageFile(v) == [ kind |-> "image", probs |-> v ]
Uploads == { NoFile, Garbage } \cup { ImageFile(v) : v \in Predictions }

NoDownload == [ file_name |-> "", label |-> "" ]

NoBaseline == [ lang |-> "", file |-> NoFile, class_index |-> -1,
                confidence |-> -1, report_class |-> "", report_confidence |-> -1,
                file_name |-> "" ]

\* The locals of a run that has not started.
FreshRun(s) ==
  /\ model' = [model EXCEPT ![s] = "unset"]
  /\ display' = [display EXCEPT ![s] = {}]
  /\ events' = [events EXCEPT ![s] = {}]
  /\ diag' = [diag EXCEPT ![s] = NoDiag]
  /\ report_call' = [report_call EXCEPT ![s] = NoCall]
  /\ pdf' = [pdf EXCEPT ![s] = NoPdf]
  /\ doc' = [doc EXCEPT ![s] = NoDoc]
  /\ scratch' = [scratch EXCEPT ![s] = 0]
  /\ pdf_file' = [pdf_file EXCEPT ![s] = "unset"]
  /\ download' = [download EXCEPT ![s] = NoDownload]
  /\ table_html' = [table_html EXCEPT ![s] = << >>]

Init ==
  /\ modelFile \in {"absent", "valid", "corrupt"}
  /\ cache = "empty"
  /\ loads = 0
  /\ tmpFiles = {}
  /\ widget = [s \in Sessions |-> [lang |-> "English", file |-> NoFile]]
  /\ pc = [s \in Sessions |-> IF s \in Browsers THEN "start" ELSE "idle"]
  /\ model = [s \in Sessions |-> "unset"]
  /\ lang = [s \in Sessions |-> "unset"]
  /\ display = [s \in Sessions |-> {}]
  /\ events = [s \in Sessions |-> {}]
  /\ diag = [s \in Sessions |-> NoDiag]
  /\ report_call = [s \in Sessions |-> NoCall]
  /\ pdf = [s \in Sessions |-> NoPdf]
  /\ doc = [s \in Sessions |-> NoDoc]
  /\ scratch = [s \in Sessions |-> 0]
  /\ pdf_file = [s \in Sessions |-> "unset"]
  /\ download = [s \in Sessions |-> NoDownload]
  /\ table_html = [s \in Sessions |-> << >>]
  /\ baseline = [s \in Sessions |-> NoBaseline]

Show(s, elements) == display' = [display EXCEPT ![s] = @ \cup elements]
Note(s, happened) == events' = [events EXCEPT ![s] = @ \cup happened]
Goto(s, label) == pc' = [pc EXCEPT ![s] = label]

-----------------------------------------------------------------------------
(* Start of the script: model acquisition and loading (src/app.py 17-67)   *)

\* Lines 17-27.  With model.h5 absent the archive is downloaded and
\* extracted; a failure of either shows st.error and calls st.stop().
AcquireModel(s) ==
  /\ pc[s] = "start"
  /\ IF modelFile # "absent"
     THEN /\ Goto(s, "load")
          /\ UNCHANGED << modelFile, display, events >>
     ELSE \E outcome \in {"extracted", "failed"} :
          IF outcome = "extracted"
          THEN \* the archive may or may not hold a loadable model.h5
               /\ modelFile' \in {"valid", "corrupt", "absent"}
               /\ Show(s, {"download_warning", "download_success"})
               /\ UNCHANGED events
               /\ Goto(s, "load")
          ELSE \* extractall can fail after it wrote part of model.h5
               /\ modelFile' \in {"absent", "corrupt"}
               /\ Show(s, {"download_warning", "download_error"})
               /\ Note(s, {"acquire_failed"})
               /\ Goto(s, "stopped")
  /\ UNCHANGED << cache, loads, tmpFiles, widget, model, lang, diag,
                  report_call, pdf, doc, scratch, pdf_file, download,
                  table_html, baseline >>

\* A variant of LoadModel without the cache (no @st.cache_resource on
\* line 47): every run executes the body of load_plant_model.
LoadModel_NoCache(s) ==
  /\ pc[s] = "load"
  /\ IF modelFile = "absent"
     THEN /\ model' = [model EXCEPT ![s] = "none"]
          /\ Show(s, {"load_error"})
          /\ Note(s, {"load_failed"})
          /\ UNCHANGED << cache, loads >>
     ELSE IF modelFile = "valid"
     THEN /\ cache' = "model"
          /\ loads' = loads + 1
          /\ model' = [model EXCEPT ![s] = "model"]
          /\ Note(s, {"model_loaded"})
          /\ UNCHANGED display
     ELSE /\ loads' = loads + 1
          /\ model' = [model EXCEPT ![s] = "none"]
          /\ Show(s, {"load_error", "load_traceback"})
          /\ Note(s, {"load_failed"})
          /\ UNCHANGED cache
  /\ Goto(s, "check")
  /\ UNCHANGED << modelFile, tmpFiles, widget, lang, diag, report_call, pdf,
                  doc, scratch, pdf_file, download, table_html, baseline >>

\* Lines 46-62.  load_plant_model under st.cache_resource: the body runs
\* only when the cache holds no entry, and its return value, None
\* included, becomes the entry.  The body calls load_model (line 54) when
\* the file exists.
LoadModel(s) ==
  /\ pc[s] = "load"
  /\ IF cache # "empty"
     THEN /\ model' = [model EXCEPT ![s] = cache]
          /\ UNCHANGED << cache, loads, display, events >>
     ELSE IF modelFile = "absent"
     THEN /\ cache' = "none"
          /\ model' = [model EXCEPT ![s] = "none"]
          /\ Show(s, {"load_error"})
          /\ Note(s, {"load_failed"})
          /\ UNCHANGED loads
     ELSE IF modelFile = "valid"
     THEN /\ cache' = "model"
          /\ loads' = loads + 1
          /\ model' = [model EXCEPT ![s] = "model"]
          /\ Note(s, {"model_loaded"})
          /\ UNCHANGED display
     ELSE /\ cache' = "none"
          /\ loads' = loads + 1
          /\ model' = [model EXCEPT ![s] = "none"]
          /\ Show(s, {"load_error", "load_traceback"})
          /\ Note(s, {"load_failed"})
  /\ Goto(s, "check")
  /\ UNCHANGED << modelFile, tmpFiles, widget, lang, diag, report_call, pdf,
                  doc, scratch, pdf_file, download, table_html, baseline >>

\* A variant of CheckModel that warns but does not call st.stop().
CheckModel_NoStop(s) ==
  /\ pc[s] = "check"
  /\ IF model[s] = "none"
     THEN Show(s, {"no_model_warning"})
     ELSE UNCHANGED display
  /\ Goto(s, "layout")
  /\ UNCHANGED << modelFile, cache, loads, tmpFiles, widget, model, lang,
                  events, diag, report_call, pdf, doc, scratch, pdf_file,
                  download, table_html, baseline >>

\* Lines 64-67.
CheckModel(s) ==
  /\ pc[s] = "check"
  /\ IF model[s] = "none"
     THEN /\ Show(s, {"no_model_warning"})
          /\ Goto(s, "stopped")
     ELSE /\ Goto(s, "layout")
          /\ UNCHANGED display
  /\ UNCHANGED << modelFile, cache, loads, tmpFiles, widget, model, lang,
                  events, diag, report_call, pdf, doc, scratch, pdf_file,
                  download, table_html, baseline >>

-----------------------------------------------------------------------------
(* Page layout and the request pipeline (src/app.py 514-598)               *)

\* Lines 516-536: language selector, session state, title, file uploader.
\* With no file uploaded the script ends here (line 538).
Layout(s) ==
  /\ pc[s] = "layout"
  /\ lang' = [lang EXCEPT ![s] = widget[s].lang]
  /\ Show(s, {"language_selector", "title", "file_uploader"})
  /\ Goto(s, IF widget[s].file.kind = "none" THEN "done" ELSE "process")
  /\ UNCHANGED << modelFile, cache, loads, tmpFiles, widget, model, events,
                  diag, report_call, pdf, doc, scratch, pdf_file, download,
                  table_html, baseline >>

\* A variant of ProcessImage without the None test of line 544: after a
\* failed decode the script still goes on to the prediction.
ProcessImage_NoCheck(s) ==
  /\ pc[s] = "process"
  /\ IF widget[s].file.kind = "image"
     THEN /\ Show(s, {"uploaded_image", "processing"})
          /\ Note(s, {"image_processed"})
     ELSE /\ Show(s, {"image_error", "image_traceback", "processing"})
          /\ Note(s, {"decode_failed"})
  /\ Goto(s, "predict")
  /\ UNCHANGED << modelFile, cache, loads, tmpFiles, widget, model, lang, diag,
                  report_call, pdf, doc, scratch, pdf_file, download,
                  table_html, baseline >>

\* Lines 539-554 and 597-598 with process_image (370-381).  Bytes that do
\* not decode make Image.open raise; process_image reports it and returns
\* (None, None), and the script takes the else branch of line 544.
ProcessImage(s) ==
  /\ pc[s] = "process"
  /\ IF widget[s].file.kind = "image"
     THEN /\ Show(s, {"uploaded_image", "processing"})
          /\ Note(s, {"image_processed"})
          /\ Goto(s, "predict")
     ELSE /\ Show(s, {"image_error", "image_traceback", "image_failed_warning"})
          /\ Note(s, {"decode_failed"})
          /\ Goto(s, "table")
  /\ UNCHANGED << modelFile, cache, loads, tmpFiles, widget, model, lang, diag,
                  report_call, pdf, doc, scratch, pdf_file, download,
                  table_html, baseline >>

\* A variant of Resolve that takes the report's label from the texts of
\* the UI language (current_texts for texts["English"] in line 564).
Resolve_UiLabel(v, ui_lang) ==
  LET class_index == NpArgMax(v)
      confidence == NpMax(v) * 100
      pred_class_en == Item(texts[ui_lang].classes, class_index)
      detail_key == IF ui_lang = "Arabic" THEN "ar" ELSE "en"
      fertilizer_key == IF ui_lang = "Arabic" THEN "fertilizer_ar" ELSE "fertilizer"
  IN  [ prediction |-> v,
        class_index |-> class_index,
        confidence |-> confidence,
        pred_class_en |-> pred_class_en,
        pred_class_display |-> Item(texts[ui_lang].classes, class_index),
        confidence_text |-> Format2f(confidence),
        details_text |-> DetailsGet(pred_class_en, detail_key),
        fertilizer_text |-> DetailsGet(pred_class_en, fertilizer_key) ]

\* Lines 562-577: the resolver.  class_index and confidence come from the
\* vector alone; the English label is the report's, the label of the UI
\* language is the one displayed.
Resolve(v, ui_lang) ==
  LET class_index == NpArgMax(v)
      confidence == NpMax(v) * 100
      pred_class_en == Item(texts["English"].classes, class_index)
      detail_key == IF ui_lang = "Arabic" THEN "ar" ELSE "en"
      fertilizer_key == IF ui_lang = "Arabic" THEN "fertilizer_ar" ELSE "fertilizer"
  IN  [ prediction |-> v,
        class_index |-> class_index,
        confidence |-> confidence,
        pred_class_en |-> pred_class_en,
        pred_class_display |-> Item(texts[ui_lang].classes, class_index),
        confidence_text |-> Format2f(confidence),
        details_text |-> DetailsGet(pred_class_en, detail_key),
        fertilizer_text |-> DetailsGet(pred_class_en, fertilizer_key) ]

\* Lines 555-580: model.predict, the resolver, the three result elements
\* and the call of create_pdf_report.  An exception of model.predict
\* leaves the try block for the handler of line 592.
Diagnose(s) ==
  /\ pc[s] = "predict"
  /\ IF model[s] = "none"
     THEN /\ Show(s, {"model_not_loaded"})
          /\ Goto(s, "table")
          /\ UNCHANGED << events, diag, report_call >>
     ELSE \E outcome \in {"returns", "raises"} :
          IF outcome = "raises"
          THEN /\ Note(s, {"predict_called", "predict_raised"})
               /\ Goto(s, "except")
               /\ UNCHANGED << display, diag, report_call >>
          ELSE LET d == Resolve(widget[s].file.probs, lang[s])
               IN  /\ Note(s, {"predict_called", "resolved"})
                   /\ diag' = [diag EXCEPT ![s] = d]
                   /\ display' = [display EXCEPT ![s] =
                        (@ \ {"processing"}) \cup {"result", "confidence", "details"}]
                   /\ report_call' = [report_call EXCEPT ![s] =
                        [ predicted_class_en |-> d.pred_class_en,
                          confidence |-> d.confidence ]]
                   /\ Goto(s, "pdf_fonts")
  /\ UNCHANGED << modelFile, cache, loads, tmpFiles, widget, model, lang, pdf,
                  doc, scratch, pdf_file, download, table_html, baseline >>

-----------------------------------------------------------------------------
(* create_pdf_report (src/app.py 383-512)                                  *)

FontStates == {"absent", "loads", "fails"}

\* pdf.set_font(family, style): helvetica is built in; any other family
\* must have been registered by add_font in that style, else set_font raises.
SetFontRaises(family, style, registered) ==
  /\ family # "helvetica"
  /\ (IF style = "B" THEN family \o "B" ELSE family) \notin registered

\* A variant of SelectFonts that picks the bold font by the flag of the
\* regular one (roboto_regular_found for roboto_bold_found in line 407).
SelectFonts_BoldByRegular(regular, bold) ==
  LET raised == regular = "fails" \/ (regular # "fails" /\ bold = "fails")
      roboto_regular_found == regular = "loads" /\ ~raised
      roboto_bold_found == bold = "loads" /\ ~raised
  IN  [ roboto_regular_found |-> roboto_regular_found,
        roboto_bold_found |-> roboto_bold_found,
        registered |->
          (IF regular = "loads" THEN {"Roboto"} ELSE {}) \cup
          (IF regular # "fails" /\ bold = "loads" THEN {"RobotoB"} ELSE {}),
        english_font |-> IF roboto_regular_found THEN "Roboto" ELSE "helvetica",
        english_bold_font |-> IF roboto_regular_found THEN "Roboto" ELSE "helvetica",
        tmp_file_path |-> 0,
        raising |-> FALSE ]

\* Lines 390-407: the flags and fonts chosen for a regular and a bold font
\* file that is absent, registers, or makes add_font raise.  An exception
\* of either add_font resets both flags.
SelectFonts(regular, bold) ==
  LET raised == regular = "fails" \/ (regular # "fails" /\ bold = "fails")
      roboto_regular_found == regular = "loads" /\ ~raised
      roboto_bold_found == bold = "loads" /\ ~raised
  IN  [ roboto_regular_found |-> roboto_regular_found,
        roboto_bold_found |-> roboto_bold_found,
        registered |->
          (IF regular = "loads" THEN {"Roboto"} ELSE {}) \cup
          (IF regular # "fails" /\ bold = "loads" THEN {"RobotoB"} ELSE {}),
        english_font |-> IF roboto_regular_found THEN "Roboto" ELSE "helvetica",
        english_bold_font |-> IF roboto_bold_found THEN "Roboto" ELSE "helvetica",
        tmp_file_path |-> 0,
        raising |-> FALSE ]

\* Lines 385-421: new document, font selection, title, image heading and
\* tmp_file_path = None.  The set_font calls of lines 414 and 419 take the
\* bold font; an exception of theirs leaves the function.
Pdf_Fonts(s) ==
  /\ pc[s] = "pdf_fonts"
  /\ \E regular \in FontStates, bold \in FontStates :
       LET f == SelectFonts(regular, bold)
       IN  IF SetFontRaises(f.english_bold_font, "B", f.registered)
           THEN /\ Note(s, {"font_raised", "report_raised"})
                /\ Goto(s, "except")
                /\ UNCHANGED pdf
           ELSE /\ pdf' = [pdf EXCEPT ![s] = f]
                /\ Goto(s, "pdf_tmp")
                /\ UNCHANGED events
  /\ doc' = [doc EXCEPT ![s] = NoDoc]
  /\ UNCHANGED << modelFile, cache, loads, tmpFiles, widget, model, lang,
                  display, diag, report_call, scratch, pdf_file, download,
                  table_html, baseline >>

\* A variant of Pdf_TempFile that writes the scratch image under one fixed
\* path, creating or truncating it (open("temp.png", "wb") for
\* NamedTemporaryFile).
Pdf_TempFile_FixedName(s) ==
  /\ pc[s] = "pdf_tmp"
  /\ tmpFiles' = tmpFiles \cup {1}
  /\ scratch' = [scratch EXCEPT ![s] = 1]
  /\ Goto(s, "pdf_save")
  /\ UNCHANGED << modelFile, cache, loads, widget, model, lang, display,
                  events, diag, report_call, pdf, doc, pdf_file, download,
                  table_html, baseline >>

\* Line 423: NamedTemporaryFile creates a file under a name no existing
\* file has, or raises.
Pdf_TempFile(s) ==
  /\ pc[s] = "pdf_tmp"
  /\ \/ \E name \in TmpNames \ tmpFiles :
          /\ tmpFiles' = tmpFiles \cup {name}
          /\ scratch' = [scratch EXCEPT ![s] = name]
          /\ Goto(s, "pdf_save")
          /\ UNCHANGED events
     \/ /\ Note(s, {"embed_failed"})
        /\ Goto(s, "pdf_except")
        /\ UNCHANGED << tmpFiles, scratch >>
  /\ UNCHANGED << modelFile, cache, loads, widget, model, lang, display, diag,
                  report_call, pdf, doc, pdf_file, download, table_html,
                  baseline >>

\* Lines 424-425: pil_image.save into the open file, then the assignment
\* of tmp_file_path.  When save raises, the with block closes the file and
\* the assignment is not reached.
Pdf_Save(s) ==
  /\ pc[s] = "pdf_save"
  /\ \E outcome \in {"saved", "raises"} :
       IF outcome = "saved"
       THEN /\ pdf' = [pdf EXCEPT ![s].tmp_file_path = scratch[s]]
            /\ Goto(s, "pdf_image")
            /\ UNCHANGED events
       ELSE /\ Note(s, {"embed_failed"})
            /\ Goto(s, "pdf_except")
            /\ UNCHANGED pdf
  /\ UNCHANGED << modelFile, cache, loads, tmpFiles, widget, model, lang,
                  display, diag, report_call, doc, scratch, pdf_file, download,
                  table_html, baseline >>

\* Lines 427-431: pdf.image(tmp_file_path, ...).
Pdf_Image(s) ==
  /\ pc[s] = "pdf_image"
  /\ \E outcome \in {"embedded", "raises"} :
       IF outcome = "embedded"
       THEN /\ doc' = [doc EXCEPT ![s].images = @ + 1]
            /\ Goto(s, "pdf_finally")
            /\ UNCHANGED events
       ELSE /\ Note(s, {"embed_failed"})
            /\ Goto(s, "pdf_except")
            /\ UNCHANGED doc
  /\ UNCHANGED << modelFile, cache, loads, tmpFiles, widget, model, lang,
                  display, diag, report_call, pdf, scratch, pdf_file, download,
                  table_html, baseline >>

\* A variant of Pdf_EmbedError that writes the error line and re-raises.
Pdf_EmbedError_Reraise(s) ==
  /\ pc[s] = "pdf_except"
  /\ doc' = [doc EXCEPT ![s].error_lines = @ + 1]
  /\ pdf' = [pdf EXCEPT ![s].raising = TRUE]
  /\ Goto(s, "pdf_finally")
  /\ UNCHANGED << modelFile, cache, loads, tmpFiles, widget, model, lang,
                  display, events, diag, report_call, scratch, pdf_file,
                  download, table_html, baseline >>

\* Lines 432-437: the handler writes "Error embedding image: ..." into the
\* document where the image would be.  pdf.cell can raise on the message
\* (a character the font cannot encode); the exception then leaves the
\* function after the finally clause.  So does an exception of the
\* set_font of line 433, which takes the regular font.
Pdf_EmbedError(s) ==
  /\ pc[s] = "pdf_except"
  /\ IF SetFontRaises(pdf[s].english_font, "", pdf[s].registered)
     THEN /\ pdf' = [pdf EXCEPT ![s].raising = TRUE]
          /\ Note(s, {"font_raised", "handler_raised"})
          /\ UNCHANGED doc
     ELSE \E outcome \in {"written", "raises"} :
       IF outcome = "written"
       THEN /\ doc' = [doc EXCEPT ![s].error_lines = @ + 1]
            /\ UNCHANGED << pdf, events >>
       ELSE /\ pdf' = [pdf EXCEPT ![s].raising = TRUE]
            /\ Note(s, {"handler_raised"})
            /\ UNCHANGED doc
  /\ Goto(s, "pdf_finally")
  /\ UNCHANGED << modelFile, cache, loads, tmpFiles, widget, model, lang,
                  display, diag, report_call, scratch, pdf_file, download,
                  table_html, baseline >>

\* Lines 438-443: the finally clause.  The file is removed only when
\* tmp_file_path was assigned and the path exists; an exception of
\* os.remove is swallowed.  A pending exception then leaves the function,
\* and its locals and the unfinished document are dropped.
Pdf_Cleanup(s) ==
  /\ pc[s] = "pdf_finally"
  /\ IF pdf[s].tmp_file_path # 0 /\ pdf[s].tmp_file_path \in tmpFiles
     THEN \E outcome \in {"removed", "raises"} :
            tmpFiles' = IF outcome = "removed"
                        THEN tmpFiles \ {pdf[s].tmp_file_path}
                        ELSE tmpFiles
     ELSE UNCHANGED tmpFiles
  /\ IF pdf[s].raising
     THEN /\ Note(s, {"report_raised"})
          /\ pdf' = [pdf EXCEPT ![s] = NoPdf]
          /\ doc' = [doc EXCEPT ![s] = NoDoc]
          /\ Goto(s, "except")
     ELSE /\ Goto(s, "pdf_body")
          /\ UNCHANGED << events, pdf, doc >>
  /\ UNCHANGED << modelFile, cache, loads, widget, model, lang, display, diag,
                  report_call, scratch, pdf_file, download, table_html,
                  baseline >>

\* A variant of TableRows whose data rows are all of table_data
\* (table_data for table_data[1:] in line 485): the header comes twice.
TableRows_HeaderTwice(table_data) ==
  LET headers == Head(table_data)
      data_rows == table_data
  IN  << headers >> \o data_rows

\* Lines 483-503: the rows the table loops draw from table_data: the
\* header row table_data[0], then one row per entry of table_data[1:].
TableRows(table_data) ==
  LET headers == Head(table_data)
      data_rows == Tail(table_data)
  IN  << headers >> \o data_rows

\* Lines 445-503: diagnosis, confidence, recommendation and the general
\* fertilization table, all from texts["English"].  The confidence line
\* has a fallback layout (454-461) that reports through st.warning.  Any
\* other exception of a cell leaves the function, and so does one of the
\* set_font calls, which take the bold font (446-491) and the regular one
\* (448-496).
Pdf_Body(s) ==
  /\ pc[s] = "pdf_body"
  /\ \E outcome \in {"composed", "fallback", "raises"} :
       IF \/ SetFontRaises(pdf[s].english_bold_font, "B", pdf[s].registered)
          \/ SetFontRaises(pdf[s].english_font, "", pdf[s].registered)
       THEN /\ Note(s, {"font_raised", "body_raised", "report_raised"})
            /\ pdf' = [pdf EXCEPT ![s] = NoPdf]
            /\ doc' = [doc EXCEPT ![s] = NoDoc]
            /\ Goto(s, "except")
            /\ UNCHANGED display
       ELSE IF outcome = "raises"
       THEN /\ Note(s, {"body_raised", "report_raised"})
            /\ pdf' = [pdf EXCEPT ![s] = NoPdf]
            /\ doc' = [doc EXCEPT ![s] = NoDoc]
            /\ Goto(s, "except")
            /\ UNCHANGED display
       ELSE /\ doc' = [doc EXCEPT
                 ![s].tables = @ + 1,
                 ![s].table_rows = Len(TableRows(texts["English"].fertilizer_table))]
            /\ IF outcome = "fallback"
               THEN Show(s, {"fpdf_cell_warning"})
               ELSE UNCHANGED display
            /\ Goto(s, "pdf_output")
            /\ UNCHANGED << events, pdf >>
  /\ UNCHANGED << modelFile, cache, loads, tmpFiles, widget, model, lang, diag,
                  report_call, scratch, pdf_file, download, table_html,
                  baseline >>

\* Lines 505-512: pdf.output.  Its bytes are returned in a buffer; an
\* exception is reported and None is returned.
Pdf_Output(s) ==
  /\ pc[s] = "pdf_output"
  /\ \E outcome \in {"bytes", "raises"} :
       IF outcome = "bytes"
       THEN /\ pdf_file' = [pdf_file EXCEPT ![s] = "buffer"]
            /\ UNCHANGED << display, events, doc >>
       ELSE /\ pdf_file' = [pdf_file EXCEPT ![s] = "none"]
            /\ doc' = [doc EXCEPT ![s] = NoDoc]
            /\ Show(s, {"pdf_output_error", "pdf_output_traceback"})
            /\ Note(s, {"output_failed"})
  /\ pdf' = [pdf EXCEPT ![s] = NoPdf]
  /\ Goto(s, "offer")
  /\ UNCHANGED << modelFile, cache, loads, tmpFiles, widget, model, lang, diag,
                  report_call, scratch, download, table_html, baseline >>

-----------------------------------------------------------------------------
(* After create_pdf_report (src/app.py 581-621)                            *)

\* Lines 581-590 and 596: the download button when a buffer came back,
\* a warning when None came back.
OfferDownload(s) ==
  /\ pc[s] = "offer"
  /\ IF pdf_file[s] = "buffer"
     THEN /\ download' = [download EXCEPT ![s] =
               [ file_name |-> "plant_diagnosis_report_english.pdf",
                 label |-> texts[lang[s]].download_pdf ]]
          /\ Show(s, {"download_button"})
     ELSE /\ Show(s, {"pdf_warning"})
          /\ UNCHANGED download
  /\ Goto(s, "table")
  /\ UNCHANGED << modelFile, cache, loads, tmpFiles, widget, model, lang,
                  events, diag, report_call, pdf, doc, scratch, pdf_file,
                  table_html, baseline >>

\* A variant of PipelineError that empties the whole results container
\* instead of the placeholder.
PipelineError_ClearsResults(s) ==
  /\ pc[s] = "except"
  /\ display' = [display EXCEPT ![s] =
       (@ \ {"processing", "result", "confidence", "details"})
         \cup {"pipeline_error", "pipeline_error_details"}]
  /\ Goto(s, "table")
  /\ UNCHANGED << modelFile, cache, loads, tmpFiles, widget, model, lang,
                  events, diag, report_call, pdf, doc, scratch, pdf_file,
                  download, table_html, baseline >>

\* A variant of PipelineError that ends the run with st.stop() after the
\* error message.
PipelineError_Stops(s) ==
  /\ pc[s] = "except"
  /\ display' = [display EXCEPT ![s] =
       (@ \ {"processing"}) \cup {"pipeline_error", "pipeline_error_details"}]
  /\ Goto(s, "stopped")
  /\ UNCHANGED << modelFile, cache, loads, tmpFiles, widget, model, lang,
                  events, diag, report_call, pdf, doc, scratch, pdf_file,
                  download, table_html, baseline >>

\* Lines 592-596: the handler of the pipeline's try block.  It empties the
\* "processing" placeholder and shows the error and its details.
PipelineError(s) ==
  /\ pc[s] = "except"
  /\ display' = [display EXCEPT ![s] =
       (@ \ {"processing"}) \cup {"pipeline_error", "pipeline_error_details"}]
  /\ Goto(s, "table")
  /\ UNCHANGED << modelFile, cache, loads, tmpFiles, widget, model, lang,
                  events, diag, report_call, pdf, doc, scratch, pdf_file,
                  download, table_html, baseline >>

\* Lines 600-621: the general fertilization table of the UI language, its
\* cells reversed for Arabic.  It is the last statement of the script.
FertilizationTable(s) ==
  /\ pc[s] = "table"
  /\ LET table_data == texts[lang[s]].fertilizer_table
     IN  table_html' = [table_html EXCEPT ![s] =
           [ i \in 1..Len(table_data) |->
               IF lang[s] = "Arabic" THEN Reversed(table_data[i])
               ELSE table_data[i] ]]
  /\ Show(s, {"fertilizer_table"})
  /\ Goto(s, "done")
  /\ UNCHANGED << modelFile, cache, loads, tmpFiles, widget, model, lang,
                  events, diag, report_call, pdf, doc, scratch, pdf_file,
                  download, baseline >>

-----------------------------------------------------------------------------
(* The user: every interaction with a widget reruns the script             *)

\* What a finished run showed for the file in the uploader.
Observation(s) ==
  [ lang |-> lang[s], file |-> widget[s].file,
    class_index |-> diag[s].class_index,
    confidence |-> diag[s].confidence,
    report_class |-> report_call[s].predicted_class_en,
    report_confidence |-> report_call[s].confidence,
    file_name |-> download[s].file_name ]

\* The selector of line 520 is changed: the script reruns with the same
\* uploaded file.  The diagnosis of the finished run is kept for comparison.
SelectLanguage(s) ==
  /\ pc[s] = "done"
  /\ \E l \in Languages \ {widget[s].lang} :
       widget' = [widget EXCEPT ![s].lang = l]
  /\ baseline' = [baseline EXCEPT ![s] =
       IF "resolved" \in events[s] THEN Observation(s) ELSE NoBaseline]
  /\ FreshRun(s)
  /\ Goto(s, "start")
  /\ UNCHANGED << modelFile, cache, loads, tmpFiles, lang >>

\* The uploader of line 531 gets another file, or is cleared.
Upload(s) ==
  /\ pc[s] = "done"
  /\ \E f \in Uploads \ {widget[s].file} :
       widget' = [widget EXCEPT ![s].file = f]
  /\ baseline' = [baseline EXCEPT ![s] = NoBaseline]
  /\ FreshRun(s)
  /\ Goto(s, "start")
  /\ UNCHANGED << modelFile, cache, loads, tmpFiles, lang >>

\* The page is reloaded: widgets and session state start afresh.
Reload(s) ==
  /\ pc[s] \in {"done", "stopped"}
  /\ widget' = [widget EXCEPT ![s] = [lang |-> "English", file |-> NoFile]]
  /\ lang' = [lang EXCEPT ![s] = "unset"]
  /\ baseline' = [baseline EXCEPT ![s] = NoBaseline]
  /\ FreshRun(s)
  /\ Goto(s, "start")
  /\ UNCHANGED << modelFile, cache, loads, tmpFiles >>

-----------------------------------------------------------------------------
(* Specification                                                           *)

Next ==
  \E s \in Browsers :
    \/ AcquireModel(s)
    \/ LoadModel(s)
    \/ CheckModel(s)
    \/ Layout(s)
    \/ ProcessImage(s)
    \/ Diagnose(s)
    \/ Pdf_Fonts(s)
    \/ Pdf_TempFile(s)
    \/ Pdf_Save(s)
    \/ Pdf_Image(s)
    \/ Pdf_EmbedError(s)
    \/ Pdf_Cleanup(s)
    \/ Pdf_Body(s)
    \/ Pdf_Output(s)
    \/ OfferDownload(s)
    \/ PipelineError(s)
    \/ FertilizationTable(s)
    \/ SelectLanguage(s)
    \/ Upload(s)
    \/ Reload(s)

Spec == Init /\ [][Next]_vars

-----------------------------------------------------------------------------
(* Concurrent sessions: Streamlit runs the script of each session in a     *)
(* thread of its own                                                       *)

\* The image both sessions have in their uploader.
SampleUpload == ImageFile([ i \in 1..3 |-> IF i = 1 THEN Scale ELSE 0 ])

\* Every session has been served once (the model is loaded and cached) and
\* has then uploaded an image, which starts the run that diagnoses it.
InitConcurrent ==
  /\ modelFile = "valid"
  /\ cache = "model"
  /\ loads = 1
  /\ tmpFiles = {}
  /\ widget = [s \in Sessions |-> [lang |-> "English", file |-> SampleUpload]]
  /\ pc = [s \in Sessions |-> "start"]
  /\ model = [s \in Sessions |-> "unset"]
  /\ lang = [s \in Sessions |-> "English"]
  /\ display = [s \in Sessions |-> {}]
  /\ events = [s \in Sessions |-> {}]
  /\ diag = [s \in Sessions |-> NoDiag]
  /\ report_call = [s \in Sessions |-> NoCall]
  /\ pdf = [s \in Sessions |-> NoPdf]
  /\ doc = [s \in Sessions |-> NoDoc]
  /\ scratch = [s \in Sessions |-> 0]
  /\ pdf_file = [s \in Sessions |-> "unset"]
  /\ download = [s \in Sessions |-> NoDownload]
  /\ table_html = [s \in Sessions |-> << >>]
  /\ baseline = [s \in Sessions |-> NoBaseline]

\* The download button of lines 582-588 is clicked: the browser gets the
\* report and the script reruns with the widgets as they are.
Download(s) ==
  /\ pc[s] = "done"
  /\ "download_button" \in display[s]
  /\ baseline' = [baseline EXCEPT ![s] = NoBaseline]
  /\ FreshRun(s)
  /\ Goto(s, "start")
  /\ UNCHANGED << modelFile, cache, loads, tmpFiles, widget, lang >>

NextConcurrent ==
  \E s \in Sessions :
    \/ AcquireModel(s)
    \/ LoadModel(s)
    \/ CheckModel(s)
    \/ Layout(s)
    \/ ProcessImage(s)
    \/ Diagnose(s)
    \/ Pdf_Fonts(s)
    \/ Pdf_TempFile(s)
    \/ Pdf_Save(s)
    \/ Pdf_Image(s)
    \/ Pdf_EmbedError(s)
    \/ Pdf_Cleanup(s)
    \/ Pdf_Body(s)
    \/ Pdf_Output(s)
    \/ OfferDownload(s)
    \/ PipelineError(s)
    \/ FertilizationTable(s)
    \/ Download(s)

SpecConcurrent == InitConcurrent /\ [][NextConcurrent]_vars

-----------------------------------------------------------------------------
(* Properties                                                              *)

\* create_pdf_report has returned or raised in this run.
ReportCallOver(s) ==
  /\ "resolved" \in events[s]
  /\ pc[s] \in {"offer", "except", "table", "done"}

ResultElements == {"result", "confidence", "details"}
UploadUI == {"language_selector", "file_uploader"}
ReportFileName == "plant_diagnosis_report_english.pdf"

\* C1 (as claimed): once create_pdf_report has returned or raised, the
\* scratch file the call created no longer exists.
C1_ScratchFileRemoved ==
  \A s \in Sessions :
    (ReportCallOver(s) /\ scratch[s] # 0) => scratch[s] \notin tmpFiles

C4_LanguageIndependence ==
  \A s \in Sessions :
    ( /\ baseline[s] # NoBaseline
      /\ "resolved" \in events[s]
      /\ baseline[s].file = widget[s].file
      /\ baseline[s].lang # lang[s] ) =>
      /\ diag[s].class_index = baseline[s].class_index
      /\ diag[s].confidence = baseline[s].confidence
      /\ report_call[s].predicted_class_en = baseline[s].report_class
      /\ report_call[s].confidence = baseline[s].report_confidence
      /\ report_call[s].predicted_class_en \in DetailKeys
      /\ download[s].file_name \in {"", ReportFileName}
      /\ baseline[s].file_name \in {"", ReportFileName}

C4_Witness ==
  \E s \in Sessions :
    /\ baseline[s].lang = "English"
    /\ lang[s] = "Arabic"
    /\ "resolved" \in events[s]
    /\ baseline[s].file_name = ReportFileName
    /\ download[s].file_name = ReportFileName
    /\ diag[s].pred_class_display # report_call[s].predicted_class_en

\* C5: a run whose model download or extraction failed, or whose model
\* could not be loaded, shows a failure message and halts before the
\* language selector and the uploader are rendered; model.predict is only
\* ever called with a loaded model.
C5_NoModelNoDiagnosis ==
  \A s \in Sessions :
    /\ "acquire_failed" \in events[s] =>
         /\ pc[s] = "stopped"
         /\ "download_error" \in display[s]
         /\ display[s] \cap UploadUI = {}
    /\ (model[s] = "none" /\ pc[s] # "check") =>
         /\ pc[s] = "stopped"
         /\ "no_model_warning" \in display[s]
         /\ display[s] \cap UploadUI = {}
    /\ "load_failed" \in events[s] => model[s] = "none"
    /\ "predict_called" \in events[s] => (model[s] = "model" /\ cache = "model")

C5_Witness ==
  \E s \in Sessions :
    /\ pc[s] = "stopped"
    /\ "load_failed" \in events[s]
    /\ "download_success" \in display[s]

\* C6: when the uploaded bytes do not decode, process_image shows an error
\* and returns no tensor; model.predict is not called, no diagnosis and no
\* download button are displayed, and the run goes on to the general
\* fertilization table instead of stopping.
C6_DecodeFailure ==
  \A s \in Sessions :
    "decode_failed" \in events[s] =>
      /\ "image_error" \in display[s]
      /\ events[s] \cap {"image_processed", "predict_called", "resolved"} = {}
      /\ diag[s] = NoDiag
      /\ display[s] \cap (ResultElements \cup {"download_button"}) = {}
      /\ download[s] = NoDownload
      /\ pc[s] \in {"table", "done"}
      /\ pc[s] = "done" => "fertilizer_table" \in display[s]

C6_Witness ==
  \E s \in Sessions :
    /\ "decode_failed" \in events[s]
    /\ pc[s] = "done"
    /\ widget[s].file = Garbage

\* C7: when create_pdf_report raises or returns None, the diagnosis label,
\* the confidence and the recommendation are on the page and stay there,
\* no download button is offered, and the run is not stopped.
C7_ReportFailureKeepsDiagnosis ==
  \A s \in Sessions :
    ("report_raised" \in events[s] \/ pdf_file[s] = "none") =>
      /\ ResultElements \subseteq display[s]
      /\ diag[s] # NoDiag
      /\ download[s] = NoDownload
      /\ "download_button" \notin display[s]
      /\ pc[s] \in {"except", "offer", "table", "done"}
      /\ pc[s] = "done" => "fertilizer_table" \in display[s]

C7_Witness ==
  \E s \in Sessions :
    /\ "report_raised" \in events[s]
    /\ pc[s] = "done"
    /\ "pipeline_error" \in display[s]

\* C8: when model.predict raises, the handler of the pipeline shows the
\* error with its details, no diagnosis label, confidence or download
\* button is displayed, and the run goes on to the general fertilization
\* table instead of stopping.
C8_InferenceErrorCaught ==
  \A s \in Sessions :
    "predict_raised" \in events[s] =>
      /\ diag[s] = NoDiag
      /\ display[s] \cap (ResultElements \cup {"download_button"}) = {}
      /\ download[s] = NoDownload
      /\ pc[s] \in {"except", "table", "done"}
      /\ pc[s] \in {"table", "done"} =>
           {"pipeline_error", "pipeline_error_details"} \subseteq display[s]
      /\ pc[s] = "done" => "fertilizer_table" \in display[s]

C8_Witness ==
  \E s \in Sessions :
    /\ "predict_raised" \in events[s]
    /\ pc[s] = "done"
    /\ "pipeline_error_details" \in display[s]

\* C9: the class index is the smallest index that holds the maximum of the
\* vector; the report's label and the displayed label are the entries at
\* that index of [Healthy, Nitrogen Deficiency, Zinc Deficiency] in English
\* and in the UI language; index 0 gives "Healthy Leaf" and its Arabic
\* counterpart.
C9_ArgMaxFirstIndex ==
  \A s \in Sessions :
    "resolved" \in events[s] =>
      LET v == diag[s].prediction
          i == diag[s].class_index
          english == << "Healthy Leaf", "Nitrogen Deficiency", "Zinc Deficiency" >>
          arabic == << "waraqa salima", "naqs al-nitrujin", "naqs al-zink" >>
      IN  /\ i \in 0..2
          /\ \A j \in 1..3 : v[j] <= v[i + 1]
          /\ \A j \in 1..i : v[j] < v[i + 1]
          /\ diag[s].pred_class_en = english[i + 1]
          /\ report_call[s].predicted_class_en = english[i + 1]
          /\ diag[s].pred_class_display =
               (IF lang[s] = "Arabic" THEN arabic[i + 1] ELSE english[i + 1])

C9_Witness ==
  \E s \in Sessions :
    /\ "resolved" \in events[s]
    /\ lang[s] = "Arabic"
    /\ diag[s].prediction[1] = diag[s].prediction[2]
    /\ diag[s].prediction[3] < diag[s].prediction[1]
    /\ diag[s].class_index = 0
    /\ diag[s].pred_class_display = "waraqa salima"

\* C10: the confidence displayed and passed to the report is 100 times the
\* largest entry of the vector and lies in [0, 100]; the text displayed is
\* that value rounded to two decimals.
C10_ConfidenceIsHundredTimesMax ==
  \A s \in Sessions :
    "resolved" \in events[s] =>
      LET v == diag[s].prediction
          c == diag[s].confidence
          t == diag[s].confidence_text
      IN  /\ \E j \in 1..3 : c = 100 * v[j]
          /\ \A j \in 1..3 : c >= 100 * v[j]
          /\ 0 <= c /\ c <= 100 * Scale
          /\ report_call[s].confidence = c
          /\ 0 <= t /\ t <= 10000
          /\ 2 * (t * Scale - 100 * c) <= Scale
          /\ 2 * (100 * c - t * Scale) <= Scale

C10_Witness ==
  \E s \in Sessions :
    /\ "resolved" \in events[s]
    /\ diag[s].class_index = 2
    /\ (100 * diag[s].confidence) % Scale # 0
    /\ diag[s].confidence < 100 * Scale

\* The positions of a run inside create_pdf_report after its font setup.
ReportCallRunning(s) ==
  pc[s] \in {"pdf_tmp", "pdf_save", "pdf_image", "pdf_except", "pdf_finally",
             "pdf_body", "pdf_output"}

\* C11: whatever the state of the two preferred font files (present,
\* absent, failing to register), no set_font of create_pdf_report raises:
\* each font the call selects for text is helvetica or the Roboto variant
\* (regular, bold) that add_font registered in this call.
C11_FontsNeverFail ==
  \A s \in Sessions :
    /\ "font_raised" \notin events[s]
    /\ ReportCallRunning(s) =>
         /\ pdf[s].english_font \in {"helvetica", "Roboto"}
         /\ pdf[s].english_bold_font \in {"helvetica", "Roboto"}
         /\ pdf[s].english_font = "Roboto" => "Roboto" \in pdf[s].registered
         /\ pdf[s].english_bold_font = "Roboto" => "RobotoB" \in pdf[s].registered
         /\ pdf[s].roboto_regular_found = (pdf[s].english_font = "Roboto")
         /\ pdf[s].roboto_bold_found = (pdf[s].english_bold_font = "Roboto")

\* The regular font registered, the bold one failed: both fall back.
C11_Witness ==
  \E s \in Sessions :
    /\ pc[s] = "pdf_output"
    /\ pdf[s].registered = {"Roboto"}
    /\ pdf[s].english_font = "helvetica"
    /\ pdf[s].english_bold_font = "helvetica"

\* C13: over all runs of the process load_model is called at most once;
\* once the cache holds the loaded model no step replaces, drops or reloads
\* it, and every later run gets that handle from load_plant_model.
C13_LoadedOnce ==
  [][ /\ loads' <= 1
      /\ cache = "model" => (cache' = "model" /\ loads' = loads)
      /\ \A s \in Sessions :
           (cache = "model" /\ pc[s] = "load" /\ pc'[s] = "check") =>
             model'[s] = "model" ]_vars

\* A run that predicts with a model it did not load itself.
C13_Witness ==
  \E s \in Sessions :
    /\ loads = 1
    /\ cache = "model"
    /\ "predict_called" \in events[s]
    /\ "model_loaded" \notin events[s]

\* The call of create_pdf_report of the run has created its scratch file
\* and has not yet passed its finally clause.
HoldsScratch(s) ==
  /\ pc[s] \in {"pdf_save", "pdf_image", "pdf_except", "pdf_finally"}
  /\ scratch[s] # 0

\* C12: calls of create_pdf_report that run at the same time have scratch
\* files of different names; the file of a call exists from its creation
\* until the call itself removes it, and the only path a call embeds from
\* and removes is that of its own file.
C12_ScratchFilesDisjoint ==
  /\ \A s, t \in Sessions :
       (s # t /\ HoldsScratch(s) /\ HoldsScratch(t)) => scratch[s] # scratch[t]
  /\ \A s \in Sessions :
       /\ HoldsScratch(s) => scratch[s] \in tmpFiles
       /\ pdf[s].tmp_file_path # 0 =>
            (HoldsScratch(s) \/ pc[s] \in {"pdf_body", "pdf_output"}) /\
            pdf[s].tmp_file_path = scratch[s]

\* Two calls in flight, each about to embed its own file.
C12_Witness ==
  \E s, t \in Sessions :
    /\ s # t
    /\ pc[s] = "pdf_image"
    /\ pc[t] = "pdf_image"
    /\ scratch[s] # scratch[t]
    /\ {scratch[s], scratch[t]} \subseteq tmpFiles

=============================================================================
